---- MODULE Spec2Model ----
(***************************************************************************)
(* Model of the DFW property-search front end: the zustand stores          *)
(* (filterStore, mapStore, authStore), the PropertyMap component's parcel  *)
(* query (TanStack Query 5 useQuery + result effect) and the events that   *)
(* drive them.                                                             *)
(*                                                                         *)
(* A nullable value is modelled as a sequence of length 0 or 1:            *)
(* Null == <<>> is JavaScript's null/undefined, Some(x) == <<x>> is x.     *)
(***************************************************************************)
EXTENDS Integers, Sequences, FiniteSets, TLC

VARIABLES
    filterStore,    \* useFilterStore: filters, savedPreferences, activePreferenceId
    mapStore,       \* useMapStore: bounds, parcels, totalParcels, accessLevel, isLoading, error
    authStore,      \* useAuthStore: user, token, isAuthenticated, isLoading, error
    authPending,    \* the asynchronous authStore calls awaiting the identity provider
    storage,        \* localStorage's 'dfw-auth-storage' record, written by persist
    preferencesQuery, \* the ['preferences'] query of MapControls, as a query client
    page,           \* the route being shown: "map" (PropertyMap mounted) or "login"
    queries,        \* the QueryClient's cache: query key -> query state
    inflight,       \* search requests on the wire: query key -> number outstanding
    requests,       \* number of search requests issued so far
    now,            \* wall clock in milliseconds
    exportButton,   \* ExportButton: its isExporting state and its export requests
    savePreferenceModal, \* MapControls' isSaveModalOpen and SavePreferenceModal's state
    backend,        \* what the backend stores: the user's saved preferences
    exportModal,    \* ExportModal's state
    last            \* history: the event that led to this state, with its inputs

\* The modals' state and the backend's.
modalVars == <<savePreferenceModal, backend, exportModal>>

vars == <<filterStore, mapStore, authStore, authPending, storage, preferencesQuery, page,
          queries, inflight, requests, now, exportButton, savePreferenceModal, backend,
          exportModal, last>>

Null == <<>>

Some(x) == <<x>>

\* A shallow copy {...a}.
Copy(a) == [k \in DOMAIN a |-> a[k]]

\* JavaScript object spread {...a, ...b}: the fields of b override those of a.
Spread(a, b) ==
    [k \in (DOMAIN a) \cup (DOMAIN b) |-> IF k \in DOMAIN b THEN b[k] ELSE a[k]]

(***************************************************************************)
(* filterStore                                                             *)
(***************************************************************************)

defaultFilters ==
    [priceRange |-> [min |-> Null, max |-> Null],
     sizeRange  |-> [min |-> Null, max |-> Null],
     counties   |-> <<>>]

\* The filters of the QUICK_FILTERS entries; they carry no counties field.
QUICK_FILTERS ==
    << [priceRange |-> [min |-> Some(100000), max |-> Some(250000)],
        sizeRange  |-> [min |-> Some(800),    max |-> Some(1500)]],
       [priceRange |-> [min |-> Some(250000), max |-> Some(500000)],
        sizeRange  |-> [min |-> Some(1500),   max |-> Some(3000)]],
       [priceRange |-> [min |-> Some(500000), max |-> Some(2000000)],
        sizeRange  |-> [min |-> Some(3000),   max |-> Null]],
       [priceRange |-> [min |-> Some(50000),  max |-> Some(200000)],
        sizeRange  |-> [min |-> Some(500),    max |-> Some(1200)]] >>

filterStoreInit ==
    [filters |-> Copy(defaultFilters),
     savedPreferences |-> <<>>,
     activePreferenceId |-> Null]

\* A variant that keeps the marker when the new filters are those of the
\* active preference.
setFiltersKeepingEqual(state, filters) ==
    LET same == \E i \in 1..Len(state.savedPreferences) :
                    /\ state.activePreferenceId = Some(state.savedPreferences[i].id)
                    /\ state.savedPreferences[i].filters = filters
    IN  Spread(state,
            [filters |-> filters,
             activePreferenceId |-> IF same THEN state.activePreferenceId ELSE Null])

\* Each store operation is the partial state that zustand's set() merges in.
setFilters(state, filters) ==
    Spread(state, [filters |-> filters, activePreferenceId |-> Null])

\* A variant that stores the pair in ascending order.
updatePriceRangeOrdered(state, min, max) ==
    LET swap == min # Null /\ max # Null /\ min[1] > max[1]
    IN  Spread(state,
            [filters |-> Spread(state.filters,
                            [priceRange |-> [min |-> IF swap THEN max ELSE min,
                                             max |-> IF swap THEN min ELSE max]]),
             activePreferenceId |-> Null])

updatePriceRange(state, min, max) ==
    Spread(state,
        [filters |-> Spread(state.filters, [priceRange |-> [min |-> min, max |-> max]]),
         activePreferenceId |-> Null])

updateSizeRange(state, min, max) ==
    Spread(state,
        [filters |-> Spread(state.filters, [sizeRange |-> [min |-> min, max |-> max]]),
         activePreferenceId |-> Null])

\* A variant that starts from the default filters.
updateCountiesFromDefault(state, counties) ==
    Spread(state,
        [filters |-> Spread(defaultFilters, [counties |-> counties]),
         activePreferenceId |-> Null])

updateCounties(state, counties) ==
    Spread(state,
        [filters |-> Spread(state.filters, [counties |-> counties]),
         activePreferenceId |-> Null])

\* A variant that resets the two ranges and keeps the counties.
clearFiltersRangesOnly(state) ==
    Spread(state,
        [filters |-> Spread(state.filters,
                        [priceRange |-> [min |-> Null, max |-> Null],
                         sizeRange  |-> [min |-> Null, max |-> Null]]),
         activePreferenceId |-> Null])

clearFilters(state) ==
    Spread(state,
        [filters |-> Copy(defaultFilters),
         activePreferenceId |-> Null])

\* A variant that merges the preset into the current filters.
applyPresetMerged(state, preset) ==
    Spread(state,
        [filters |-> Spread(state.filters, preset),
         activePreferenceId |-> Null])

applyPreset(state, preset) ==
    Spread(state,
        [filters |-> Copy(preset),
         activePreferenceId |-> Null])

setSavedPreferences(state, preferences) ==
    Spread(state, [savedPreferences |-> preferences])

\* Array.prototype.find over savedPreferences: the first entry with this id.
FindPreference(prefs, id) ==
    LET hits == {i \in 1..Len(prefs) : prefs[i].id = id}
    IN  IF hits = {} THEN Null
        ELSE Some(prefs[CHOOSE i \in hits : \A j \in hits : i <= j])

\* A variant that records the id and never loads the preference's filters.
setActivePreferenceIdOnly(state, id) ==
    Spread(state, [activePreferenceId |-> IF id = Some("") THEN Null ELSE id])

\* !id is true for null and for the empty string.
setActivePreference(state, id) ==
    IF id = Null \/ id = Some("")
    THEN Spread(state, [activePreferenceId |-> Null])
    ELSE LET preference == FindPreference(state.savedPreferences, id[1])
         IN  IF preference # Null
             THEN Spread(state,
                      [activePreferenceId |-> id,
                       filters |-> Copy(preference[1].filters)])
             ELSE Spread(state, [activePreferenceId |-> id])

(***************************************************************************)
(* mapStore                                                                *)
(***************************************************************************)

mapStoreInit ==
    [bounds |-> Null,
     parcels |-> <<>>,
     totalParcels |-> 0,
     isLoading |-> FALSE,
     error |-> Null,
     accessLevel |-> "guest"]

\* A variant that drops the result of the viewport left behind.
setBoundsClearing(state, bounds) ==
    Spread(state, [bounds |-> bounds, parcels |-> <<>>, totalParcels |-> 0])

setBounds(state, bounds) == Spread(state, [bounds |-> bounds])

\* A variant that appends the new features to the ones held.
setParcelsAppend(state, data) ==
    Spread(state,
        [parcels |-> state.parcels \o data.features,
         totalParcels |-> data.metadata.total,
         accessLevel |-> data.metadata.accessLevel,
         isLoading |-> FALSE,
         error |-> Null])

setParcels(state, data) ==
    Spread(state,
        [parcels |-> data.features,
         totalParcels |-> data.metadata.total,
         accessLevel |-> data.metadata.accessLevel,
         isLoading |-> FALSE,
         error |-> Null])

setLoading(state, isLoading) == Spread(state, [isLoading |-> isLoading])

\* A variant that also empties the result, as clearParcels does.
setErrorClearing(state, error) ==
    Spread(state, [error |-> error, isLoading |-> FALSE, parcels |-> <<>>, totalParcels |-> 0])

setError(state, error) == Spread(state, [error |-> error, isLoading |-> FALSE])

(***************************************************************************)
(* authStore                                                               *)
(***************************************************************************)

\* The state created by the store, then initialize()'s first set(); the
\* persisted isAuthenticated flag is rehydrated over it.
authStoreInit(persisted) ==
    [user |-> Null,
     token |-> Null,
     isAuthenticated |-> persisted,
     isLoading |-> TRUE,
     error |-> Null]

\* A variant without the partialize option: persist writes the whole state.
partializeAll(state) == state

\* persist's partialize: what of the state is written to localStorage.
partialize(state) == [isAuthenticated |-> state.isAuthenticated]

\* The store of a freshly loaded page: the persisted record merged over the
\* created state, then initialize()'s first set().
rehydrate(record) ==
    Spread(Spread([user |-> Null, token |-> Null, isAuthenticated |-> FALSE,
                   isLoading |-> TRUE, error |-> Null],
                  record),
           [isLoading |-> TRUE, error |-> Null])

loginStart(state) == Spread(state, [isLoading |-> TRUE, error |-> Null])

loginSucceeded(state, user, token) ==
    Spread(state,
        [user |-> user,
         token |-> token,
         isAuthenticated |-> TRUE,
         isLoading |-> FALSE,
         error |-> Null])

\* A variant that records the message and leaves the session fields alone.
loginFailedKeepingSession(state, errorMessage) ==
    Spread(state, [isLoading |-> FALSE, error |-> Some(errorMessage)])

loginFailed(state, errorMessage) ==
    Spread(state,
        [user |-> Null,
         token |-> Null,
         isAuthenticated |-> FALSE,
         isLoading |-> FALSE,
         error |-> Some(errorMessage)])

initializeValid(state, user, token) ==
    Spread(state,
        [user |-> user,
         token |-> token,
         isAuthenticated |-> TRUE,
         isLoading |-> FALSE])

\* A variant that leaves isLoading as it is.
initializeAnonymousStillLoading(state) ==
    Spread(state, [user |-> Null, token |-> Null, isAuthenticated |-> FALSE])

initializeAnonymous(state) ==
    Spread(state,
        [user |-> Null,
         token |-> Null,
         isAuthenticated |-> FALSE,
         isLoading |-> FALSE])

\* A variant that leaves the token in the store.
logoutKeepingToken(state) ==
    Spread(state, [user |-> Null, isAuthenticated |-> FALSE, error |-> Null])

logout(state) ==
    Spread(state,
        [user |-> Null,
         token |-> Null,
         isAuthenticated |-> FALSE,
         error |-> Null])

\* A variant that stores the user and leaves isAuthenticated as it is.
setUserKeepingFlag(state, user) == Spread(state, [user |-> user])

\* setUser: isAuthenticated is !!user.
setUser(state, user) == Spread(state, [user |-> user, isAuthenticated |-> user # Null])

setToken(state, token) == Spread(state, [token |-> token])

\* The auth store's setError (the map store has one of the same name).
setAuthError(state, error) == Spread(state, [error |-> error])

clearError(state) == Spread(state, [error |-> Null])

(***************************************************************************)
(* ExportButton                                                            *)
(***************************************************************************)

\* useState(false) of a mounted button; no exportToCsv call awaited by it
\* (awaiting) or by a button since unmounted (orphaned).
exportButtonInit ==
    [isExporting |-> FALSE, awaiting |-> 0, orphaned |-> 0]

\* The button over a render: when MapControls unmounts the state is dropped and
\* the call it awaited goes on without a component.
exportButtonRendered(b, isMounted) ==
    IF isMounted THEN b
    ELSE [b EXCEPT !.isExporting = FALSE, !.awaiting = 0, !.orphaned = @ + b.awaiting]

\* A variant of handleExport without the guest branch.
exportClickedAnyone(b, isAuthenticated) ==
    [button |-> [b EXCEPT !.isExporting = TRUE, !.awaiting = @ + 1],
     requested |-> TRUE,
     navigate |-> Null]

\* handleExport up to its await: a guest is sent to /login, for a signed-in
\* user isExporting is set and exportToCsv(filters) is called.
exportClicked(b, isAuthenticated) ==
    IF ~isAuthenticated
    THEN [button |-> b, requested |-> FALSE, navigate |-> Some("login")]
    ELSE [button |-> [b EXCEPT !.isExporting = TRUE, !.awaiting = @ + 1],
          requested |-> TRUE,
          navigate |-> Null]

\* handleExport after its await, on either outcome: finally setIsExporting(false).
exportSettled(b) == [b EXCEPT !.isExporting = FALSE, !.awaiting = @ - 1]

(***************************************************************************)
(* SavePreferenceModal, ExportModal and the backend's saved preferences    *)
(***************************************************************************)

\* MapControls' useState(false) for isSaveModalOpen; the modal's name state and
\* its mutation's isPending; the names of the createPreference requests sent.
savePreferenceModalInit ==
    [isOpen |-> FALSE, name |-> <<>>, isPending |-> FALSE, creating |-> <<>>]

\* Nothing saved yet.
backendInit == [preferences |-> <<>>]

\* ExportModal's useState defaults. A distance is a whole number of thousandths
\* of a mile, so useState(1) is 1000, and the input's limits 0.01 and 50 are
\* 10 and 50000. isOpen tells whether the parent renders the modal; awaiting
\* counts the exportToCsv calls of the mounted modal that have not settled,
\* orphaned those of a modal that was closed meanwhile.
exportModalInit ==
    [isExporting |-> FALSE,
     sortBy |-> "price_desc",
     useLocationFilter |-> FALSE,
     centerPoint |-> Null,
     maxDistance |-> 1000,
     isOpen |-> FALSE,
     awaiting |-> 0,
     orphaned |-> 0]

SORT_OPTIONS ==
    <<[value |-> "price_desc", requiresDistance |-> FALSE],
      [value |-> "price_asc", requiresDistance |-> FALSE],
      [value |-> "size_desc", requiresDistance |-> FALSE],
      [value |-> "size_asc", requiresDistance |-> FALSE],
      [value |-> "distance", requiresDistance |-> TRUE]>>

\* Not a number: a parsed number is Some(n), NaN is none.
NaN == Null

\* parseFloat of the texts the distance input is given, in thousandths of a
\* mile; the empty text parses to NaN.
parseFloat(text) ==
    CASE text = "" -> NaN
      [] text = "0" -> Some(0)
      [] text = "-1" -> Some(-1000)
      [] text = "0.005" -> Some(5)
      [] text = "0.01" -> Some(10)
      [] text = "2.5" -> Some(2500)
      [] text = "50" -> Some(50000)
      [] text = "50.001" -> Some(50001)

\* The effect on [useLocationFilter, sortBy]: a distance sort is put back to
\* price_desc while the location filter is off. It runs with the render that
\* follows a change of either state, before the next event is handled.
sortResetEffect(m) ==
    IF ~m.useLocationFilter /\ m.sortBy = "distance"
    THEN [m EXCEPT !.sortBy = "price_desc"]
    ELSE m

\* The location switch: setUseLocationFilter(!useLocationFilter). The geocoder
\* effect adds or removes the search box and leaves centerPoint; the map store
\* declares no lastSearchedLocation, so the effect's default is never taken.
toggleLocationFilter(m) ==
    sortResetEffect([m EXCEPT !.useLocationFilter = ~@])

\* The geocoder's 'result' event.
geocoderResult(m, place) == [m EXCEPT !.centerPoint = Some(place)]

\* The geocoder's 'clear' event, and the center point's own clear button, which
\* sets null and clears the geocoder.
geocoderClear(m) == [m EXCEPT !.centerPoint = Null]

\* The distance input's onChange: a text that parses outside 0.01..50 is
\* dropped.
maxDistanceChanged(m, text) ==
    LET val == parseFloat(text)
    IN  IF val # NaN /\ val[1] >= 10 /\ val[1] =< 50000
        THEN [m EXCEPT !.maxDistance = val[1]]
        ELSE m

\* Whether the select offers the option: the distance option is disabled
\* while the location filter is off.
optionEnabled(m, option) == ~(option.requiresDistance /\ ~m.useLocationFilter)

\* The select's onChange, with the effect its render runs.
sortSelected(m, value) == sortResetEffect([m EXCEPT !.sortBy = value])

\* The mutant of exportDisabled: the button is disabled only while exporting.
exportDisabledWhileExportingOnly(m) == m.isExporting

\* The Download CSV button's disabled attribute.
exportDisabled(m) ==
    m.isExporting \/ (m.useLocationFilter /\ m.centerPoint = Null)

\* handleExport's exportOptions: the location fields are added only with the
\* location filter on, a center point and a positive distance.
exportOptions(m, filters) ==
    LET options == [filters |-> filters, sortBy |-> m.sortBy]
    IN  IF m.useLocationFilter /\ m.centerPoint # Null /\ m.maxDistance > 0
        THEN options @@ [centerPoint |-> m.centerPoint[1],
                         maxDistance |-> m.maxDistance]
        ELSE options

\* exportToCsv posts its argument as the body's filters field.
exportToCsv(filters) ==
    [url |-> "/api/v1/export/csv", data |-> [filters |-> filters]]

\* onClose: the parent stops rendering the modal, whose state is dropped; a
\* request that has not settled goes on.
modalClosed(m) ==
    [exportModalInit EXCEPT !.orphaned = m.orphaned + m.awaiting]

(***************************************************************************)
(* PropertyMap: the parcel query                                           *)
(***************************************************************************)

\* `${west},${south},${east},${north}`: the four numbers in this order.
bboxString(bounds) ==
    IF bounds = Null THEN Null
    ELSE Some(<<bounds[1].west, bounds[1].south, bounds[1].east, bounds[1].north>>)

\* queryKey: ['parcels', filters, bboxString, isAuthenticated]
\* A variant that leaves the filters out of the key.
queryKeyNoFilters(filters, bounds, isAuthenticated) ==
    [filters |-> Copy(defaultFilters), bbox |-> bboxString(bounds),
     isAuthenticated |-> isAuthenticated]

queryKey(filters, bounds, isAuthenticated) ==
    [filters |-> filters, bbox |-> bboxString(bounds), isAuthenticated |-> isAuthenticated]

\* A variant without the enabled option.
enabledAlways(key) == TRUE

\* enabled: !!bounds
enabled(key) == key.bbox # Null

staleTime == 30000

\* queries.staleTime of the QueryClient's defaultOptions, which the staleTime
\* option of PropertyMap's useQuery overrides.
defaultStaleTime == 5 * 60 * 1000

\* queries.retry of the QueryClient's defaultOptions
retry == 1

\* The key PropertyMap's useQuery observes, Null while PropertyMap is not mounted.
ObservedKey(pg, fs, ms, as) ==
    IF pg = "map"
    THEN Some(queryKey(fs.filters, ms.bounds, as.isAuthenticated))
    ELSE Null

\* The state of a query the cache has just built: no data, nothing fetching.
newQuery ==
    [data |-> Null,
     dataUpdatedAt |-> 0,
     error |-> Null,
     fetchStatus |-> "idle",
     failureCount |-> 0,
     failureReason |-> Null,
     retryCancelled |-> FALSE]

\* A query that was never fetched has the state newQuery whether or not the
\* cache holds an entry for it, so the cache is modelled as holding the fetched
\* queries only.
queryState(qs, k) == IF k \in DOMAIN qs THEN qs[k] ELSE newQuery

Put(f, k, v) == [x \in (DOMAIN f) \cup {k} |-> IF x = k THEN v ELSE f[x]]

InFlight(inf, k) == IF k \in DOMAIN inf THEN inf[k] ELSE 0

\* A variant that leaves the window at the QueryClient's default.
isStaleByDefault(q, t) == q.data = Null \/ t >= q.dataUpdatedAt + defaultStaleTime

\* Query.isStaleByTime(staleTime)
isStale(q, t) == q.data = Null \/ t >= q.dataUpdatedAt + staleTime

\* A variant that sends a request whether or not one is running.
fetchAlways(c, k) ==
    LET q == c.queries[k]
    IN  [queries |-> Put(c.queries, k,
                [q EXCEPT !.fetchStatus = "fetching",
                          !.failureCount = 0,
                          !.failureReason = Null,
                          !.retryCancelled = FALSE,
                          !.error = IF q.data = Null THEN Null ELSE q.error]),
         inflight |-> Put(c.inflight, k, InFlight(c.inflight, k) + 1),
         requests |-> c.requests + 1]

\* The query client is the record c = [queries, inflight, requests].
\* Query.fetch: a fetch already running is joined (its retries continue);
\* otherwise the query goes to fetching and queryFn sends one search request.
fetch(c, k) ==
    LET q == c.queries[k]
    IN  IF q.fetchStatus # "idle"
        THEN [c EXCEPT !.queries = Put(c.queries, k, [q EXCEPT !.retryCancelled = FALSE])]
        ELSE [queries |-> Put(c.queries, k,
                    [q EXCEPT !.fetchStatus = "fetching",
                              !.failureCount = 0,
                              !.failureReason = Null,
                              !.retryCancelled = FALSE,
                              !.error = IF q.data = Null THEN Null ELSE q.error]),
              inflight |-> Put(c.inflight, k, InFlight(c.inflight, k) + 1),
              requests |-> c.requests + 1]

\* The observer leaves query k: with no observer left, a running fetch is not
\* aborted (queryFn ignores the signal) but will not be retried.
removeObserver(c, k) ==
    LET q == queryState(c.queries, k)
    IN  IF q.fetchStatus # "idle"
        THEN [c EXCEPT !.queries = Put(c.queries, k, [q EXCEPT !.retryCancelled = TRUE])]
        ELSE c

\* A variant that fetches on no subscription.
addObserverNoFetch(c, k, t) == c

\* The observer turns to query k (mount, or a new key): the query is fetched
\* when enabled and stale.
addObserver(c, k, t) ==
    IF enabled(k) /\ isStale(queryState(c.queries, k), t)
    THEN fetch([c EXCEPT !.queries = Put(c.queries, k, queryState(c.queries, k))], k)
    ELSE c

\* useQuery's result for the observed key: data, isLoading, error.
queryResult(qs, obs) ==
    IF obs = Null
    THEN [data |-> Null, isLoading |-> FALSE, error |-> Null]
    ELSE LET q == queryState(qs, obs[1])
         IN  [data |-> q.data,
              isLoading |-> q.fetchStatus = "fetching" /\ q.data = Null /\ q.error = Null,
              error |-> q.error]

\* The effect that copies the query result into the map store.
resultEffect(ms, r) ==
    LET s1 == setLoading(ms, r.isLoading)
        s2 == IF r.data # Null THEN setParcels(s1, r.data[1]) ELSE s1
    IN  IF r.error # Null THEN setError(s2, r.error) ELSE s2

\* The search endpoint's answer to the request for `key`, in revision rev of the
\* backend's data: one parcel, labelled with the request it answers.
searchParcels(key, rev) ==
    [features |-> <<[parcel_id |-> rev, request |-> key]>>,
     metadata |-> [total |-> rev,
                   accessLevel |-> IF key.isAuthenticated THEN "registered" ELSE "guest"]]

\* The fetch of query k resolved with data.
fetchSucceeded(c, k, data, t) ==
    [c EXCEPT !.queries = Put(c.queries, k,
        [c.queries[k] EXCEPT !.data = Some(data),
                             !.dataUpdatedAt = t,
                             !.error = Null,
                             !.fetchStatus = "idle",
                             !.failureCount = 0,
                             !.failureReason = Null])]

\* The fetch of query k was rejected for good: its retries are used up or cancelled.
fetchFailed(c, k, message) ==
    [c EXCEPT !.queries = Put(c.queries, k,
        [c.queries[k] EXCEPT !.error = Some(message),
                             !.fetchStatus = "idle",
                             !.failureReason = Some(message)])]

\* A request of query k was rejected: the retryer gives up, or counts the
\* failure and waits for its retry delay.
attemptFailed(c, k, message) ==
    LET q == c.queries[k]
    IN  IF q.retryCancelled \/ q.failureCount >= retry
        THEN fetchFailed(c, k, message)
        ELSE [c EXCEPT !.queries = Put(c.queries, k,
                [q EXCEPT !.failureCount = q.failureCount + 1,
                          !.failureReason = Some(message)])]

\* The retry delay of query k is over: reject if the retry was cancelled
\* meanwhile, else send the request again.
retryFetch(c, k) ==
    LET q == c.queries[k]
    IN  IF q.retryCancelled
        THEN fetchFailed(c, k, q.failureReason[1])
        ELSE [c EXCEPT !.inflight = Put(c.inflight, k, InFlight(c.inflight, k) + 1),
                       !.requests = c.requests + 1]

(***************************************************************************)
(* Bounds and inputs                                                       *)
(***************************************************************************)

\* Revisions of the backend's data.
MaxRev == 1

\* Search requests issued in one run.
MaxRequests == 3

\* Clock ticks of half a staleTime in one run.
MaxTicks == 2

\* Export requests awaiting the backend at one time.
MaxExports == 2

Dallas == [north |-> 33, south |-> 32, east |-> -96, west |-> -97]

FortWorth == [north |-> 33, south |-> 32, east |-> -97, west |-> -98]

Viewports == {Dallas, FortWorth}

ErrorMessages == {"Network Error"}

Users == {[id |-> "sub-1", email |-> "a@example.com"]}

Tokens == {"jwt-1"}

(***************************************************************************)
(* Events                                                                  *)
(***************************************************************************)

Client == [queries |-> queries, inflight |-> inflight, requests |-> requests]

\* MapControls' query ['preferences'] is followed in a client record of its own.
PreferencesKey == "preferences"

\* No preferences query built yet.
preferencesInit ==
    [queries |-> [k \in {} |-> newQuery], inflight |-> [k \in {} |-> 0], requests |-> 0]

\* MapControls (and PropertyMap) are mounted on the map page.
MapControlsMounted(pg) == pg = "map"

\* The preferences query's data.
preferencesData(p) == queryState(p.queries, PreferencesKey).data

\* The observer of MapControls' useQuery over one render: the query is fetched
\* when the observer mounts enabled, or becomes enabled, and the query is stale
\* by the QueryClient's default staleTime; the observer leaves on unmount.
preferencesObserver(p, wasMounted, wasEnabled, isMounted, isEnabled, t) ==
    LET q == queryState(p.queries, PreferencesKey)
        stale == q.data = Null \/ t >= q.dataUpdatedAt + defaultStaleTime
    IN  IF isMounted /\ isEnabled /\ (~wasMounted \/ ~wasEnabled) /\ stale
        THEN fetch([p EXCEPT !.queries = Put(p.queries, PreferencesKey, q)], PreferencesKey)
        ELSE IF wasMounted /\ ~isMounted
             THEN removeObserver(p, PreferencesKey)
             ELSE p

\* MapControls' effect on [preferencesData]: it runs on mount and when the
\* data changes, and stores the list if there is one.
preferencesEffect(fs, wasMounted, isMounted, d0, d1) ==
    IF isMounted /\ d1 # Null /\ (~wasMounted \/ d1 # d0)
    THEN setSavedPreferences(fs, d1[1].data)
    ELSE fs

\* The preferences endpoint's answer.
getPreferences(list) == [data |-> list]

\* One render pass of the application after an event left the stores at
\* (fs, ms, as), the route at pg, the search queries' client at c and the
\* preferences query's client at p: each useQuery moves its observer, the
\* preferences effect runs if its data changed, and PropertyMap's result effect
\* runs if data, isLoading or error changed (both always on mount). persist
\* has written the auth store's partialized state on its last set().
RenderStores(fs, ms, as, pg, c, p) ==
    LET old == ObservedKey(page, filterStore, mapStore, authStore)
        new == ObservedKey(pg, fs, ms, as)
        cu  == IF new # old /\ old # Null THEN removeObserver(c, old[1]) ELSE c
        c1  == IF new # old /\ new # Null THEN addObserver(cu, new[1], now) ELSE cu
        r0  == queryResult(queries, old)
        r1  == queryResult(c1.queries, new)
        p1  == preferencesObserver(p, MapControlsMounted(page), authStore.isAuthenticated,
                                   MapControlsMounted(pg), as.isAuthenticated, now)
    IN  /\ c1.requests <= MaxRequests
        /\ p1.requests <= MaxRequests
        /\ filterStore' = preferencesEffect(fs, MapControlsMounted(page),
                                            MapControlsMounted(pg),
                                            preferencesData(preferencesQuery), preferencesData(p1))
        /\ preferencesQuery' = p1
        /\ storage' = partialize(as)
        /\ authStore' = as
        /\ page' = pg
        /\ queries' = c1.queries
        /\ inflight' = c1.inflight
        /\ requests' = c1.requests
        /\ mapStore' = IF new # Null /\ (old = Null \/ r1 # r0)
                        THEN resultEffect(ms, r1)
                        ELSE ms

\* The render pass of an event that is not ExportButton's own: the button
\* keeps its state while MapControls stays mounted.
RenderAll(fs, ms, as, pg, c, p) ==
    /\ RenderStores(fs, ms, as, pg, c, p)
    /\ exportButton' = exportButtonRendered(exportButton, MapControlsMounted(pg))

\* A render pass after an event that concerned neither the preferences query
\* nor a modal.
Render(fs, ms, as, pg, c) ==
    /\ RenderAll(fs, ms, as, pg, c, preferencesQuery)
    /\ UNCHANGED modalVars

\* What the history variable records of an event: its name and its inputs.
Event(op, args) == [op |-> op, args |-> args]

\* The user's events on the map page are recorded as one.
UserEvent == Event("user", <<>>)

\* MapControls.handleQuickFilterClick
handleQuickFilterClick(presets) ==
    /\ page = "map"
    /\ \E i \in presets :
          /\ Render(applyPreset(filterStore, QUICK_FILTERS[i]), mapStore, authStore,
                    page, Client)
          /\ last' = UserEvent
    /\ UNCHANGED <<authPending, now>>

\* MapControls' "Clear" button
handleClearFilters ==
    /\ page = "map"
    /\ Render(clearFilters(filterStore), mapStore, authStore, page, Client)
    /\ last' = UserEvent
    /\ UNCHANGED <<authPending, now>>

\* PropertyMap.updateBounds, on the map's load and moveend events
updateBounds(viewports) ==
    /\ page = "map"
    /\ \E b \in viewports :
          /\ Render(filterStore, setBounds(mapStore, Some(b)), authStore, page, Client)
          /\ last' = UserEvent
    /\ UNCHANGED <<authPending, now>>

\* Layout.handleLogout, from "Sign Out" of the account menu that Layout shows
\* when the store is not loading and is authenticated: logout(), then
\* navigate('/'); recorded as `event`.
handleLogoutAs(event) ==
    /\ page = "map"
    /\ ~authStore.isLoading
    /\ authStore.isAuthenticated
    /\ Render(filterStore, mapStore, logout(authStore), "map", Client)
    /\ last' = event
    /\ UNCHANGED <<authPending, now>>

handleLogout == handleLogoutAs(UserEvent)

\* The user leaves the map page for another route: PropertyMap unmounts.
goToLogin ==
    /\ page = "map"
    /\ Render(filterStore, mapStore, authStore, "login", Client)
    /\ last' = Event("goToLogin", <<>>)
    /\ UNCHANGED <<authPending, now>>

\* The user returns to the map page: PropertyMap mounts.
goToMap ==
    /\ page = "login"
    /\ Render(filterStore, mapStore, authStore, "map", Client)
    /\ last' = Event("goToMap", <<>>)
    /\ UNCHANGED <<authPending, now>>

\* initialize() resumes with a valid session; getCurrentUser resolves with one
\* of `outcomes`.
initializeResolvedOf(outcomes) ==
    /\ "initialize" \in authPending
    /\ authPending' = authPending \ {"initialize"}
    /\ \E user \in outcomes, token \in Tokens :
          /\ Render(filterStore, mapStore, initializeValid(authStore, user, Some(token)),
                    page, Client)
          /\ last' = Event("initializeResolved", <<user, token>>)
    /\ UNCHANGED now

initializeResolved == initializeResolvedOf({Some(user) : user \in Users})

\* initialize() resumes with no valid session (or the check threw).
initializeNoSession ==
    /\ "initialize" \in authPending
    /\ authPending' = authPending \ {"initialize"}
    /\ Render(filterStore, mapStore, initializeAnonymous(authStore), page, Client)
    /\ last' = Event("initializeNoSession", <<>>)
    /\ UNCHANGED now

\* The backend answers a search request of query k.
searchResolvedOf(k) ==
    /\ k \in DOMAIN inflight
    /\ inflight[k] > 0
    /\ \E rev \in 1..MaxRev :
          /\ Render(filterStore, mapStore, authStore, page,
                    fetchSucceeded([Client EXCEPT !.inflight[k] = @ - 1], k,
                                   searchParcels(k, rev), now))
          /\ last' = Event("searchResolved", <<k, rev>>)
    /\ UNCHANGED <<authPending, now>>

searchResolved == \E k \in DOMAIN inflight : searchResolvedOf(k)

\* A search request of query k fails (network, timeout, error status).
searchRejected ==
    /\ \E k \in DOMAIN inflight, m \in ErrorMessages :
          /\ inflight[k] > 0
          /\ Render(filterStore, mapStore, authStore, page,
                    attemptFailed([Client EXCEPT !.inflight[k] = @ - 1], k, m))
          /\ last' = Event("searchRejected", <<k, m>>)
    /\ UNCHANGED <<authPending, now>>

\* The retry delay of a failed request is over.
retryDelayOver ==
    /\ \E k \in DOMAIN queries :
          /\ queries[k].fetchStatus = "fetching"
          /\ InFlight(inflight, k) = 0
          /\ Render(filterStore, mapStore, authStore, page, retryFetch(Client, k))
          /\ last' = Event("retryDelayOver", <<k>>)
    /\ UNCHANGED <<authPending, now>>

\* Time passes.
Tick ==
    /\ now + staleTime \div 2 <= MaxTicks * (staleTime \div 2)
    /\ now' = now + staleTime \div 2
    /\ last' = Event("Tick", <<>>)
    /\ UNCHANGED <<filterStore, mapStore, authStore, authPending, storage, preferencesQuery,
                   page, queries, inflight, requests, exportButton, savePreferenceModal,
                   backend, exportModal>>

\* The application as loaded: the stores as created, the persisted
\* isAuthenticated flag rehydrated, initialize() awaiting the identity provider,
\* the map page shown and its map not loaded yet.
Init ==
    /\ filterStore = filterStoreInit
    /\ mapStore = mapStoreInit
    /\ \E persisted \in BOOLEAN :
          /\ authStore = authStoreInit(persisted)
          /\ storage = partialize(authStoreInit(persisted))
          /\ preferencesQuery = preferencesObserver(preferencesInit, FALSE, FALSE, TRUE,
                                               persisted, 0)
    /\ authPending = {"initialize"}
    /\ page = "map"
    /\ queries = [k \in {} |-> newQuery]
    /\ inflight = [k \in {} |-> 0]
    /\ requests = 0
    /\ now = 0
    /\ exportButton = exportButtonInit
    /\ savePreferenceModal = savePreferenceModalInit
    /\ backend = backendInit
    /\ exportModal = exportModalInit
    /\ last = Event("load", <<>>)

(***************************************************************************)
(* Spec: filter edits, the first viewport and the session on the map page  *)
(***************************************************************************)

Next ==
    \/ handleQuickFilterClick({1})
    \/ handleClearFilters
    \/ updateBounds({Dallas})
    \/ handleLogout
    \/ initializeResolved
    \/ initializeNoSession
    \/ searchResolved
    \/ searchRejected
    \/ retryDelayOver

Spec == Init /\ [][Next]_vars

(***************************************************************************)
(* LiveSpec: Spec with a backend that answers every request successfully   *)
(***************************************************************************)

\* The keys PropertyMap can observe under Next once the bounds are known.
SpecKeys ==
    {queryKey(f, Some(Dallas), a) : f \in {defaultFilters, QUICK_FILTERS[1]}, a \in BOOLEAN}

LiveNext ==
    \/ handleQuickFilterClick({1})
    \/ handleClearFilters
    \/ updateBounds({Dallas})
    \/ handleLogout
    \/ initializeResolved
    \/ initializeNoSession
    \/ searchResolved

\* Every request sent is answered.
LiveSpec ==
    /\ Init
    /\ [][LiveNext]_vars
    /\ \A k \in SpecKeys : WF_vars(searchResolvedOf(k))

(***************************************************************************)
(* NavSpec: viewport moves, navigation away from the map and back, time    *)
(***************************************************************************)

NavNext ==
    \/ updateBounds(Viewports)
    \/ goToLogin
    \/ goToMap
    \/ searchResolved
    \/ searchRejected
    \/ retryDelayOver
    \/ Tick

NavSpec == Init /\ [][NavNext]_vars

(***************************************************************************)
(* FilterSpec: useFilterStore driven directly, as filterStore.test.ts does *)
(***************************************************************************)

\* Values given for a range's min or max; they include pairs with min > max.
Amounts == {Null, Some(100000), Some(500000)}

CountyLists == {<<>>, <<"Dallas", "Tarrant">>}

\* The preset of the "should apply preset filters" test.
TestPreset ==
    [priceRange |-> [min |-> Some(200000), max |-> Some(400000)],
     sizeRange  |-> [min |-> Some(1500),   max |-> Some(2500)],
     counties   |-> <<"Dallas">>]

Presets == {QUICK_FILTERS[1], QUICK_FILTERS[3], TestPreset}

\* The saved preference of the "should set saved preferences" test.
TestPreference ==
    [id |-> "1",
     name |-> "Preset 1",
     filters |-> [priceRange |-> [min |-> Some(100000), max |-> Some(300000)],
                  sizeRange  |-> [min |-> Some(1000),   max |-> Some(2000)],
                  counties   |-> <<"Dallas">>],
     isDefault |-> FALSE]

PreferenceLists == {<<>>, <<TestPreference>>}

PreferenceIds == {Null, Some(""), Some("1"), Some("test-id")}

\* A call of a filter-store operation: its name, its arguments and whether it
\* was called with edited filters, chosen counties and an active preference.
Call(op, args) ==
    [op |-> op, args |-> args,
     edited |-> filterStore.filters # defaultFilters,
     hadCounties |-> /\ "counties" \in DOMAIN filterStore.filters
                     /\ filterStore.filters.counties # <<>>,
     wasActive |-> filterStore.activePreferenceId # Null,
     active |-> filterStore.activePreferenceId]

FilterFrame ==
    UNCHANGED <<mapStore, authStore, authPending, storage, preferencesQuery, page, queries,
                inflight, requests, now, exportButton, savePreferenceModal,
                   backend, exportModal>>

SetFilters ==
    /\ \E f \in {TestPreset, defaultFilters, TestPreference.filters} :
          /\ filterStore' = setFilters(filterStore, f)
          /\ last' = Call("setFilters", <<f>>)
    /\ FilterFrame

UpdatePriceRange ==
    /\ \E min \in Amounts, max \in Amounts :
          /\ filterStore' = updatePriceRange(filterStore, min, max)
          /\ last' = Call("updatePriceRange", <<min, max>>)
    /\ FilterFrame

UpdateSizeRange ==
    /\ \E min \in Amounts, max \in Amounts :
          /\ filterStore' = updateSizeRange(filterStore, min, max)
          /\ last' = Call("updateSizeRange", <<min, max>>)
    /\ FilterFrame

UpdateCounties ==
    /\ \E counties \in CountyLists :
          /\ filterStore' = updateCounties(filterStore, counties)
          /\ last' = Call("updateCounties", <<counties>>)
    /\ FilterFrame

ClearFilters ==
    /\ filterStore' = clearFilters(filterStore)
    /\ last' = Call("clearFilters", <<>>)
    /\ FilterFrame

ApplyPreset ==
    /\ \E preset \in Presets :
          /\ filterStore' = applyPreset(filterStore, preset)
          /\ last' = Call("applyPreset", <<preset>>)
    /\ FilterFrame

SetSavedPreferences ==
    /\ \E preferences \in PreferenceLists :
          /\ filterStore' = setSavedPreferences(filterStore, preferences)
          /\ last' = Call("setSavedPreferences", <<preferences>>)
    /\ FilterFrame

SetActivePreference ==
    /\ \E id \in PreferenceIds :
          /\ filterStore' = setActivePreference(filterStore, id)
          /\ last' = Call("setActivePreference", <<id>>)
    /\ FilterFrame

\* The stores as created, no component mounted.
FilterInit ==
    /\ filterStore = filterStoreInit
    /\ mapStore = mapStoreInit
    /\ authStore = authStoreInit(FALSE)
    /\ storage = partialize(authStoreInit(FALSE))
    /\ preferencesQuery = preferencesInit
    /\ authPending = {"initialize"}
    /\ page = "test"
    /\ queries = [k \in {} |-> newQuery]
    /\ inflight = [k \in {} |-> 0]
    /\ requests = 0
    /\ now = 0
    /\ exportButton = exportButtonInit
    /\ savePreferenceModal = savePreferenceModalInit
    /\ backend = backendInit
    /\ exportModal = exportModalInit
    /\ last = Event("load", <<>>)

FilterNext ==
    \/ SetFilters
    \/ UpdatePriceRange
    \/ UpdateSizeRange
    \/ UpdateCounties
    \/ ClearFilters
    \/ ApplyPreset
    \/ SetSavedPreferences
    \/ SetActivePreference

FilterSpec == FilterInit /\ [][FilterNext]_vars

(***************************************************************************)
(* SessionSpec: login, logout, session check, reload and the preferences   *)
(* query, with the map not loaded                                          *)
(***************************************************************************)

\* What getCurrentUser resolves with: null (no user, no valid session, or the
\* attribute lookup failed), a user whose attributes lack sub and email, a user.
UserOutcomes ==
    {Null, Some([id |-> "", email |-> ""])} \cup {Some(user) : user \in Users}

\* What signIn rejects with: an Error with the provider's message, the Error of
\* newPasswordRequired, or a value that is not an Error.
SignInRejections ==
    {[isError |-> TRUE,  message |-> "User is not confirmed."],
     [isError |-> TRUE,  message |-> "New password required"],
     [isError |-> FALSE, message |-> ""]}

\* login's catch: error instanceof Error ? error.message : 'Login failed'
loginErrorMessage(error) == IF error.isError THEN error.message ELSE "Login failed"

\* login's catch ends with `throw error`.
loginThrown(error) == error

\* LoginPage.onSubmit's catch: errorMessage.includes('not confirmed')
includesNotConfirmed(error) ==
    error.isError /\ error.message = "User is not confirmed."

\* What a request to the API is rejected with: a response status, or none.
ApiErrors ==
    {[status |-> Some(401), message |-> "Request failed with status code 401"],
     [status |-> Null,      message |-> "Network Error"]}

\* A variant that signs the user out on a 401.
responseInterceptorLogout(as, error) ==
    [authStore |-> IF error.status = Some(401) THEN logout(as) ELSE as,
     warned |-> error.status = Some(401),
     rejected |-> error]

\* api's response interceptor on an error: warn on a 401, reject with the error.
responseInterceptor(as, error) ==
    [authStore |-> as,
     warned |-> error.status = Some(401),
     rejected |-> error]

\* An event of the session, with the auth store it found.
SessionEvent(op, args) == [op |-> op, args |-> args, before |-> authStore]

\* LoginPage.onSubmit calls login(): its first set(), then signIn is awaited.
loginSubmit ==
    /\ page = "login"
    /\ "login" \notin authPending
    /\ authPending' = authPending \cup {"login"}
    /\ Render(filterStore, mapStore, loginStart(authStore), page, Client)
    /\ last' = SessionEvent("loginSubmit", <<>>)
    /\ UNCHANGED now

\* signIn resolved and getCurrentUser resolved with one of `outcomes`: login()
\* resolves and onSubmit navigates to '/'.
loginResolvedOf(outcomes) ==
    /\ "login" \in authPending
    /\ authPending' = authPending \ {"login"}
    /\ \E user \in outcomes, token \in Tokens :
          /\ Render(filterStore, mapStore, loginSucceeded(authStore, user, Some(token)),
                    "map", Client)
          /\ last' = SessionEvent("loginResolved", <<user, token>>)
    /\ UNCHANGED now

loginResolved == loginResolvedOf(UserOutcomes)

\* signIn rejected: login() records the message and rethrows; onSubmit goes to
\* '/verify' for an unconfirmed account.
loginRejected ==
    /\ "login" \in authPending
    /\ authPending' = authPending \ {"login"}
    /\ \E error \in SignInRejections :
          /\ Render(filterStore, mapStore, loginFailed(authStore, loginErrorMessage(error)),
                    IF includesNotConfirmed(error) THEN "verify" ELSE page, Client)
          /\ last' = SessionEvent("loginRejected", <<error, loginThrown(error)>>)
    /\ UNCHANGED now

\* VerifyPage's link back to the login page.
verifyToLogin ==
    /\ page = "verify"
    /\ Render(filterStore, mapStore, authStore, "login", Client)
    /\ last' = SessionEvent("verifyToLogin", <<>>)
    /\ UNCHANGED <<authPending, now>>

\* The page is loaded again: every store and the query cache are created
\* anew, the auth store is rehydrated from localStorage and initialize() is
\* called; the calls and requests of the old page are gone.
reload ==
    /\ filterStore' = filterStoreInit
    /\ mapStore' = mapStoreInit
    /\ authStore' = rehydrate(storage)
    /\ storage' = partialize(rehydrate(storage))
    /\ authPending' = {"initialize"}
    /\ preferencesQuery' = preferencesObserver(preferencesInit, FALSE, FALSE,
                                               MapControlsMounted(page),
                                               storage.isAuthenticated, now)
    /\ queries' = [k \in {} |-> newQuery]
    /\ inflight' = [k \in {} |-> 0]
    /\ exportButton' = exportButtonInit
    /\ savePreferenceModal' = savePreferenceModalInit
    /\ exportModal' = exportModalInit
    /\ UNCHANGED backend
    /\ last' = SessionEvent("reload", <<>>)
    /\ UNCHANGED <<page, requests, now>>

\* The backend answers the preferences request.
preferencesResolved ==
    /\ InFlight(preferencesQuery.inflight, PreferencesKey) > 0
    /\ \E list \in PreferenceLists :
          /\ RenderAll(filterStore, mapStore, authStore, page, Client,
                       fetchSucceeded(
                           [preferencesQuery EXCEPT !.inflight[PreferencesKey] = @ - 1],
                           PreferencesKey, getPreferences(list), now))
          /\ last' = SessionEvent("preferencesResolved", <<list>>)
    /\ UNCHANGED <<authPending, now>>
    /\ UNCHANGED modalVars

\* The preferences request fails: the response interceptor sees the error,
\* then the query counts the failure.
preferencesRejected ==
    /\ InFlight(preferencesQuery.inflight, PreferencesKey) > 0
    /\ \E error \in ApiErrors :
          LET i == responseInterceptor(authStore, error)
          IN  /\ RenderAll(filterStore, mapStore, i.authStore, page, Client,
                           attemptFailed(
                               [preferencesQuery EXCEPT !.inflight[PreferencesKey] = @ - 1],
                               PreferencesKey, i.rejected.message))
              /\ last' = [op |-> "preferencesRejected", args |-> <<error>>,
                          before |-> authStore, warned |-> i.warned,
                          rejected |-> i.rejected]
    /\ UNCHANGED <<authPending, now>>
    /\ UNCHANGED modalVars

\* The retry delay of the failed preferences request is over.
preferencesRetry ==
    /\ PreferencesKey \in DOMAIN preferencesQuery.queries
    /\ preferencesQuery.queries[PreferencesKey].fetchStatus = "fetching"
    /\ InFlight(preferencesQuery.inflight, PreferencesKey) = 0
    /\ RenderAll(filterStore, mapStore, authStore, page, Client,
                 retryFetch(preferencesQuery, PreferencesKey))
    /\ last' = SessionEvent("preferencesRetry", <<>>)
    /\ UNCHANGED <<authPending, now>>
    /\ UNCHANGED modalVars

SessionNext ==
    \/ loginSubmit
    \/ loginResolved
    \/ loginRejected
    \/ verifyToLogin
    \/ handleLogoutAs(SessionEvent("handleLogout", <<>>))
    \/ initializeResolvedOf(UserOutcomes)
    \/ initializeNoSession
    \/ reload
    \/ goToLogin
    \/ goToMap
    \/ preferencesResolved
    \/ preferencesRejected
    \/ preferencesRetry

SessionSpec == Init /\ [][SessionNext]_vars

\* The operations that edit the filters.
FilterEdits ==
    {"setFilters", "updatePriceRange", "updateSizeRange", "updateCounties",
     "clearFilters", "applyPreset"}

\* C19: after setFilters, updatePriceRange, updateSizeRange, updateCounties,
\* clearFilters or applyPreset, activePreferenceId is null.
C19_EditClearsActivePreference ==
    last.op \in FilterEdits => filterStore.activePreferenceId = Null

\* setFilters was called with the filters of the saved preference that was
\* active, which the store already held.
C19_Witness ==
    /\ last.op = "setFilters"
    /\ last.active = Some(TestPreference.id)
    /\ filterStore.savedPreferences = <<TestPreference>>
    /\ last.args[1] = TestPreference.filters
    /\ filterStore.filters = TestPreference.filters

(***************************************************************************)
(* AppSpec: the operations of the map page together - filters, viewport,   *)
(* session, export, saved preferences - with a backend that answers        *)
(***************************************************************************)

\* ExportButton.handleExport, from the button's click (disabled while
\* isExporting): no store is written.
handleExport ==
    /\ page = "map"
    /\ ~exportButton.isExporting
    /\ exportButton.awaiting + exportButton.orphaned < MaxExports
    /\ LET e == exportClicked(exportButton, authStore.isAuthenticated)
           pg == IF e.navigate # Null THEN e.navigate[1] ELSE page
       IN  /\ RenderStores(filterStore, mapStore, authStore, pg, Client, preferencesQuery)
           /\ exportButton' = exportButtonRendered(e.button, MapControlsMounted(pg))
           /\ last' = [op |-> "handleExport", args |-> <<authStore.isAuthenticated>>,
                       requested |-> e.requested, wasExporting |-> exportButton.isExporting]
    /\ UNCHANGED <<authPending, now>>
    /\ UNCHANGED modalVars

\* MapControls.handlePresetFilterClick, from the select of saved tags: the id
\* of a saved preference, or '' for the placeholder option.
handlePresetFilterClick ==
    /\ page = "map"
    /\ filterStore.savedPreferences # <<>>
    /\ \E preferenceId \in {""} \cup {filterStore.savedPreferences[i].id :
                                        i \in 1..Len(filterStore.savedPreferences)} :
          /\ Render(setActivePreference(filterStore, Some(preferenceId)), mapStore,
                    authStore, page, Client)
          /\ last' = Event("handlePresetFilterClick", <<preferenceId>>)
    /\ UNCHANGED <<authPending, now>>

AppNext ==
    \/ updateBounds({Dallas})
    \/ handleQuickFilterClick({1})
    \/ handlePresetFilterClick
    \/ handleExport
    \/ handleLogoutAs(Event("handleLogout", <<>>))
    \/ loginSubmit
    \/ loginResolvedOf({Some(user) : user \in Users})
    \/ initializeNoSession
    \/ searchResolved
    \/ preferencesResolved

AppSpec == Init /\ [][AppNext]_vars

(***************************************************************************)
(* ExportSpec: the export button and the session, with the map not loaded  *)
(***************************************************************************)

\* exportToCsv resolves for the mounted button: the blob is downloaded, then
\* finally setIsExporting(false).
exportResolved ==
    /\ exportButton.awaiting > 0
    /\ RenderStores(filterStore, mapStore, authStore, page, Client, preferencesQuery)
    /\ exportButton' = exportSettled(exportButton)
    /\ last' = Event("exportResolved", <<>>)
    /\ UNCHANGED <<authPending, now>>
    /\ UNCHANGED modalVars

\* exportToCsv rejects for the mounted button: the catch reports it, then
\* finally setIsExporting(false).
exportRejected ==
    /\ exportButton.awaiting > 0
    /\ RenderStores(filterStore, mapStore, authStore, page, Client, preferencesQuery)
    /\ exportButton' = exportSettled(exportButton)
    /\ last' = Event("exportRejected", <<>>)
    /\ UNCHANGED <<authPending, now>>
    /\ UNCHANGED modalVars

\* exportToCsv settles for a button that was unmounted meanwhile: its
\* setIsExporting(false) reaches no component.
exportOrphanSettled ==
    /\ exportButton.orphaned > 0
    /\ RenderStores(filterStore, mapStore, authStore, page, Client, preferencesQuery)
    /\ exportButton' = [exportButton EXCEPT !.orphaned = @ - 1]
    /\ last' = Event("exportOrphanSettled", <<>>)
    /\ UNCHANGED <<authPending, now>>
    /\ UNCHANGED modalVars

ExportNext ==
    \/ handleExport
    \/ exportResolved
    \/ exportRejected
    \/ exportOrphanSettled
    \/ handleLogoutAs(Event("handleLogout", <<>>))
    \/ goToLogin
    \/ goToMap
    \/ loginSubmit
    \/ loginResolvedOf({Some(user) : user \in Users})
    \/ loginRejected
    \/ initializeResolved
    \/ initializeNoSession
    \/ reload

ExportSpec == Init /\ [][ExportNext]_vars

(***************************************************************************)
(* SaveSpec: saving a tag - the save modal, its create requests, the       *)
(* preferences query and the backend's list                                *)
(***************************************************************************)

\* Saved preferences held by the backend, and create requests awaiting it.
MaxSaved == 2

\* A name is the sequence of its characters.
Names ==
    {<<>>, <<" ">>, <<"T", "a", "g">>, <<"t", "a", "g">>, <<"T", "a", "g", " ">>}

\* The tag the user may have saved in an earlier visit.
SavedTag ==
    [id |-> "1", name |-> <<"T", "a", "g">>, filters |-> defaultFilters, isDefault |-> FALSE]

\* The ids the backend gives to new preferences.
NewIds == <<"1", "2", "3">>

\* String.prototype.trim
RECURSIVE trimStart(_)
trimStart(name) ==
    IF name # <<>> /\ Head(name) = " " THEN trimStart(Tail(name)) ELSE name

RECURSIVE trimEnd(_)
trimEnd(name) ==
    IF name # <<>> /\ name[Len(name)] = " "
    THEN trimEnd(SubSeq(name, 1, Len(name) - 1))
    ELSE name

trim(name) == trimEnd(trimStart(name))

\* String.prototype.toLowerCase, on the letters used here
toLowerCase(name) ==
    [i \in 1..Len(name) |-> IF name[i] = "T" THEN "t" ELSE name[i]]

\* handleSubmit's duplicate check over preferencesData?.data || []
isDuplicate(p, name) ==
    LET existingPreferences ==
            IF preferencesData(p) = Null THEN <<>> ELSE preferencesData(p)[1].data
    IN  \E i \in 1..Len(existingPreferences) :
            toLowerCase(existingPreferences[i].name) = toLowerCase(trim(name))

\* SavePreferenceModal.handleSubmit: an empty name and a duplicate name return
\* before mutation.mutate(), which sends createPreference({name, filters,
\* isDefault}).
submit(m, p) ==
    IF trim(m.name) = <<>> THEN m
    ELSE IF isDuplicate(p, m.name) THEN m
    ELSE [m EXCEPT !.isPending = TRUE, !.creating = Append(@, m.name)]

\* queryClient.invalidateQueries on a query with an enabled observer: a fetch
\* of a query without data is joined; otherwise the running fetch is
\* cancelled silently and one request is sent.
invalidateQueries(p, k) ==
    LET q == queryState(p.queries, k)
    IN  IF q.fetchStatus # "idle" /\ q.data = Null
        THEN [p EXCEPT !.queries = Put(p.queries, k, [q EXCEPT !.retryCancelled = FALSE])]
        ELSE [queries |-> Put(p.queries, k,
                    [q EXCEPT !.fetchStatus = "fetching",
                              !.failureCount = 0,
                              !.failureReason = Null,
                              !.retryCancelled = FALSE]),
              inflight |-> Put(p.inflight, k, 1),
              requests |-> p.requests + 1]

\* Everything the modal's events leave alone.
SaveFrame == UNCHANGED <<authPending, now, exportModal>>

\* FilterPanel's onSave, offered when canSavePreferences: the modal mounts and
\* its useQuery(['preferences']) fetches if the query is stale.
openSaveModal ==
    /\ page = "map"
    /\ authStore.isAuthenticated
    /\ ~savePreferenceModal.isOpen
    /\ RenderAll(filterStore, mapStore, authStore, page, Client,
                 preferencesObserver(preferencesQuery, FALSE, FALSE, TRUE, TRUE, now))
    /\ savePreferenceModal' =
          [savePreferenceModal EXCEPT !.isOpen = TRUE, !.name = <<>>, !.isPending = FALSE]
    /\ last' = Event("openSaveModal", <<>>)
    /\ UNCHANGED backend
    /\ SaveFrame

\* The name input's onChange
setName ==
    /\ savePreferenceModal.isOpen
    /\ \E name \in Names :
          /\ savePreferenceModal' = [savePreferenceModal EXCEPT !.name = name]
          /\ last' = Event("setName", <<name>>)
    /\ RenderAll(filterStore, mapStore, authStore, page, Client, preferencesQuery)
    /\ UNCHANGED backend
    /\ SaveFrame

\* The form's submit; the submit button is disabled while the mutation is
\* pending.
handleSubmit ==
    /\ savePreferenceModal.isOpen
    /\ ~savePreferenceModal.isPending
    /\ Len(savePreferenceModal.creating) + Len(backend.preferences) < MaxSaved
    /\ savePreferenceModal' = submit(savePreferenceModal, preferencesQuery)
    /\ last' = [op |-> "handleSubmit", args |-> <<savePreferenceModal.name>>,
                requested |-> savePreferenceModal'.creating # savePreferenceModal.creating,
                loaded |-> preferencesData(preferencesQuery) # Null]
    /\ RenderAll(filterStore, mapStore, authStore, page, Client, preferencesQuery)
    /\ UNCHANGED backend
    /\ SaveFrame

\* Cancel, or a click on the backdrop, while no save is pending.
closeSaveModal ==
    /\ savePreferenceModal.isOpen
    /\ ~savePreferenceModal.isPending
    /\ savePreferenceModal' = [savePreferenceModal EXCEPT !.isOpen = FALSE]
    /\ last' = Event("closeSaveModal", <<>>)
    /\ RenderAll(filterStore, mapStore, authStore, page, Client, preferencesQuery)
    /\ UNCHANGED backend
    /\ SaveFrame

\* The backend stores the preference and answers; onSuccess invalidates the
\* preferences query and closes the modal.
createResolved ==
    /\ savePreferenceModal.creating # <<>>
    /\ backend' = [backend EXCEPT !.preferences =
                      Append(@, [id |-> NewIds[Len(@) + 1],
                                 name |-> Head(savePreferenceModal.creating),
                                 filters |-> filterStore.filters,
                                 isDefault |-> FALSE])]
    /\ savePreferenceModal' =
          [savePreferenceModal EXCEPT !.isOpen = FALSE, !.isPending = FALSE,
                                      !.creating = Tail(@)]
    /\ RenderAll(filterStore, mapStore, authStore, page, Client,
                 invalidateQueries(preferencesQuery, PreferencesKey))
    /\ last' = Event("createResolved", <<Head(savePreferenceModal.creating)>>)
    /\ SaveFrame

\* The create request fails: onError reports it and the modal stays open.
createRejected ==
    /\ savePreferenceModal.creating # <<>>
    /\ savePreferenceModal' =
          [savePreferenceModal EXCEPT !.isPending = FALSE, !.creating = Tail(@)]
    /\ RenderAll(filterStore, mapStore, authStore, page, Client, preferencesQuery)
    /\ last' = Event("createRejected", <<Head(savePreferenceModal.creating)>>)
    /\ UNCHANGED backend
    /\ SaveFrame

\* The backend answers the preferences request with the list it holds.
preferencesServed ==
    /\ InFlight(preferencesQuery.inflight, PreferencesKey) > 0
    /\ RenderAll(filterStore, mapStore, authStore, page, Client,
                 fetchSucceeded(
                     [preferencesQuery EXCEPT !.inflight[PreferencesKey] = @ - 1],
                     PreferencesKey, getPreferences(backend.preferences), now))
    /\ last' = Event("preferencesServed", <<backend.preferences>>)
    /\ UNCHANGED <<savePreferenceModal, backend>>
    /\ SaveFrame

\* The application as loaded by a user who may have saved a tag before.
SaveInit ==
    /\ filterStore = filterStoreInit
    /\ mapStore = mapStoreInit
    /\ \E persisted \in BOOLEAN :
          /\ authStore = authStoreInit(persisted)
          /\ storage = partialize(authStoreInit(persisted))
          /\ preferencesQuery = preferencesObserver(preferencesInit, FALSE, FALSE, TRUE,
                                               persisted, 0)
    /\ authPending = {"initialize"}
    /\ page = "map"
    /\ queries = [k \in {} |-> newQuery]
    /\ inflight = [k \in {} |-> 0]
    /\ requests = 0
    /\ now = 0
    /\ exportButton = exportButtonInit
    /\ savePreferenceModal = savePreferenceModalInit
    /\ backend \in {backendInit, [preferences |-> <<SavedTag>>]}
    /\ exportModal = exportModalInit
    /\ last = Event("load", <<>>)

SaveNext ==
    \/ openSaveModal
    \/ setName
    \/ handleSubmit
    \/ closeSaveModal
    \/ createResolved
    \/ createRejected
    \/ preferencesServed
    \/ initializeResolved
    \/ initializeNoSession

SaveSpec == SaveInit /\ [][SaveNext]_vars

(***************************************************************************)
(* SetterSpec: the auth store driven through its setters and logout        *)
(***************************************************************************)

SetterUsers ==
    {[id |-> "user-123", email |-> "test@example.com"], [id |-> "3", email |-> ""]}

SetterTokens == {"token1", "token2"}

\* Everything but the auth store; persist writes the partialized state on
\* every set().
SetterFrame ==
    /\ storage' = partialize(authStore')
    /\ UNCHANGED <<filterStore, mapStore, authPending, preferencesQuery, page, queries,
                   inflight, requests, now, exportButton, savePreferenceModal,
                   backend, exportModal>>

SetUser ==
    /\ \E user \in {Null} \cup {Some(u) : u \in SetterUsers} :
          /\ authStore' = setUser(authStore, user)
          /\ last' = SessionEvent("setUser", <<user>>)
    /\ SetterFrame

SetToken ==
    /\ \E token \in {Null} \cup {Some(t) : t \in SetterTokens} :
          /\ authStore' = setToken(authStore, token)
          /\ last' = SessionEvent("setToken", <<token>>)
    /\ SetterFrame

SetError ==
    /\ \E error \in {Null} \cup {Some(m) : m \in ErrorMessages} :
          /\ authStore' = setAuthError(authStore, error)
          /\ last' = SessionEvent("setError", <<error>>)
    /\ SetterFrame

ClearError ==
    /\ authStore' = clearError(authStore)
    /\ last' = SessionEvent("clearError", <<>>)
    /\ SetterFrame

Logout ==
    /\ authStore' = logout(authStore)
    /\ last' = SessionEvent("logout", <<>>)
    /\ SetterFrame

\* The store as created, with nothing persisted and no call of initialize().
SetterInit ==
    /\ filterStore = filterStoreInit
    /\ mapStore = mapStoreInit
    /\ authStore = [user |-> Null, token |-> Null, isAuthenticated |-> FALSE,
                    isLoading |-> TRUE, error |-> Null]
    /\ storage = partialize(authStore)
    /\ preferencesQuery = preferencesInit
    /\ authPending = {}
    /\ page = "map"
    /\ queries = [k \in {} |-> newQuery]
    /\ inflight = [k \in {} |-> 0]
    /\ requests = 0
    /\ now = 0
    /\ exportButton = exportButtonInit
    /\ savePreferenceModal = savePreferenceModalInit
    /\ backend = backendInit
    /\ exportModal = exportModalInit
    /\ last = Event("create", <<>>)

SetterNext ==
    \/ SetUser
    \/ SetToken
    \/ SetError
    \/ ClearError
    \/ Logout

SetterSpec == SetterInit /\ [][SetterNext]_vars

(***************************************************************************)
(* ModalSpec: the export modal - its location filter, center point,        *)
(* distance, sort order and Download button                                *)
(***************************************************************************)

\* The places the geocoder returns.
Places ==
    {[longitude |-> -97, latitude |-> 33, address |-> "Dallas, Texas"],
     [longitude |-> -96, latitude |-> 32, address |-> "75201"]}

\* The texts typed into the distance input.
DistanceTexts == {"", "0", "-1", "0.005", "0.01", "2.5", "50", "50.001"}

\* Everything but the modal.
ModalFrame ==
    UNCHANGED <<filterStore, mapStore, authStore, authPending, storage,
                preferencesQuery, page, queries, inflight, requests, now,
                exportButton, savePreferenceModal, backend>>

\* The parent starts rendering the modal: the state is the useState defaults
\* and the sort effect finds nothing to reset.
openExportModal ==
    /\ ~exportModal.isOpen
    /\ exportModal' = sortResetEffect([exportModal EXCEPT !.isOpen = TRUE])
    /\ last' = Event("openExportModal", <<>>)
    /\ ModalFrame

\* The header's close button, Cancel, or a click on the backdrop.
closeExportModal ==
    /\ exportModal.isOpen
    /\ exportModal' = modalClosed(exportModal)
    /\ last' = Event("onClose", <<>>)
    /\ ModalFrame

locationSwitchClicked ==
    /\ exportModal.isOpen
    /\ exportModal' = toggleLocationFilter(exportModal)
    /\ last' = Event("setUseLocationFilter", <<~exportModal.useLocationFilter>>)
    /\ ModalFrame

\* The search box exists while the location filter is on.
placeChosen ==
    /\ exportModal.isOpen
    /\ exportModal.useLocationFilter
    /\ \E place \in Places :
          /\ exportModal' = geocoderResult(exportModal, place)
          /\ last' = Event("result", <<place>>)
    /\ ModalFrame

\* The search box is emptied, or the chosen center point's clear button is
\* clicked.
placeCleared ==
    /\ exportModal.isOpen
    /\ exportModal.useLocationFilter
    /\ exportModal' = geocoderClear(exportModal)
    /\ last' = Event("clear", <<>>)
    /\ ModalFrame

\* The distance input is shown while the location filter is on.
distanceTyped ==
    /\ exportModal.isOpen
    /\ exportModal.useLocationFilter
    /\ \E text \in DistanceTexts :
          /\ exportModal' = maxDistanceChanged(exportModal, text)
          /\ last' = Event("maxDistance", <<text>>)
    /\ ModalFrame

sortChosen ==
    /\ exportModal.isOpen
    /\ \E i \in DOMAIN SORT_OPTIONS :
          /\ optionEnabled(exportModal, SORT_OPTIONS[i])
          /\ exportModal' = sortSelected(exportModal, SORT_OPTIONS[i].value)
          /\ last' = Event("setSortBy", <<SORT_OPTIONS[i].value>>)
    /\ ModalFrame

\* A click on Download CSV: handleExport up to its await.
modalExportClicked ==
    /\ exportModal.isOpen
    /\ ~exportDisabled(exportModal)
    /\ exportModal.awaiting + exportModal.orphaned < MaxExports
    /\ exportModal' = [exportModal EXCEPT !.isExporting = TRUE, !.awaiting = @ + 1]
    /\ last' = [op |-> "ExportModal.handleExport",
                request |-> exportToCsv(exportOptions(exportModal, filterStore.filters)),
                before |-> exportModal]
    /\ ModalFrame

\* exportToCsv resolves for the open modal: the blob is downloaded and
\* onClose() is called.
modalExportResolved ==
    /\ exportModal.awaiting > 0
    /\ exportModal' = modalClosed([exportModal EXCEPT !.awaiting = @ - 1])
    /\ last' = Event("modalExportResolved", <<>>)
    /\ ModalFrame

\* exportToCsv rejects for the open modal: finally setIsExporting(false).
modalExportRejected ==
    /\ exportModal.awaiting > 0
    /\ exportModal' = [exportModal EXCEPT !.isExporting = FALSE, !.awaiting = @ - 1]
    /\ last' = Event("modalExportRejected", <<>>)
    /\ ModalFrame

\* exportToCsv resolves for a modal that was closed meanwhile: its onClose()
\* closes the modal that is open now, if one is.
modalOrphanResolved ==
    /\ exportModal.orphaned > 0
    /\ exportModal' = IF exportModal.isOpen
                      THEN modalClosed([exportModal EXCEPT !.orphaned = @ - 1])
                      ELSE [exportModal EXCEPT !.orphaned = @ - 1]
    /\ last' = Event("modalOrphanResolved", <<>>)
    /\ ModalFrame

\* exportToCsv rejects for a modal that was closed meanwhile.
modalOrphanRejected ==
    /\ exportModal.orphaned > 0
    /\ exportModal' = [exportModal EXCEPT !.orphaned = @ - 1]
    /\ last' = Event("modalOrphanRejected", <<>>)
    /\ ModalFrame

ModalNext ==
    \/ openExportModal
    \/ closeExportModal
    \/ locationSwitchClicked
    \/ placeChosen
    \/ placeCleared
    \/ distanceTyped
    \/ sortChosen
    \/ modalExportClicked
    \/ modalExportResolved
    \/ modalExportRejected
    \/ modalOrphanResolved
    \/ modalOrphanRejected

\* The application as created, the modal not rendered.
ModalInit == SetterInit

ModalSpec == ModalInit /\ [][ModalNext]_vars

(***************************************************************************)
(* Properties of the parcel search                                         *)
(***************************************************************************)

\* The key PropertyMap observes now.
CurrentKey == ObservedKey(page, filterStore, mapStore, authStore)

\* Request k was made with the filters, bounding box and isAuthenticated that
\* the stores hold now, and PropertyMap is mounted.
IsCurrent(k) ==
    /\ page = "map"
    /\ k.filters = filterStore.filters
    /\ k.bbox = bboxString(mapStore.bounds)
    /\ k.isAuthenticated = authStore.isAuthenticated

\* The last event concerns the request that is current after it.
LastIsCurrent == IsCurrent(last.args[1])

\* The map store holds the response `data`.
Holds(data) ==
    /\ mapStore.parcels = data.features
    /\ mapStore.totalParcels = data.metadata.total
    /\ mapStore.accessLevel = data.metadata.accessLevel

\* Whenever the query of the current key has data, the map store holds it.
CurrentResultDisplayed ==
    (CurrentKey # Null /\ queryState(queries, CurrentKey[1]).data # Null) =>
        Holds(queryState(queries, CurrentKey[1]).data[1])

\* The response to a request that is not the current one leaves the map store
\* as it is.
StaleResponseDiscarded ==
    (last'.op = "searchResolved" /\ ~LastIsCurrent') => mapStore' = mapStore

\* C1: a response to the request of key K1 that arrives while another key K2 is
\* current is never written into the map store, and once K2's query has its
\* result the map store's parcels, total and accessLevel are K2's, whichever
\* response arrived first.
C1_LastKeyWins == [](CurrentResultDisplayed) /\ [][StaleResponseDiscarded]_vars

\* K1's response arrived after K2's: K2 is current and displayed, and the
\* last event is the response to a request made with another key.
C1_Witness ==
    /\ last.op = "searchResolved"
    /\ ~IsCurrent(last.args[1])
    /\ CurrentKey # Null
    /\ queryState(queries, CurrentKey[1]).data # Null
    /\ mapStore.parcels = queryState(queries, CurrentKey[1]).data[1].features
    /\ mapStore.parcels[1].request # last.args[1]

\* C2: at most one search request per key is in flight at any time.
C2_OneRequestPerKey == \A k \in DOMAIN inflight : inflight[k] <= 1

\* PropertyMap was mounted again on the key whose first request is still in
\* flight, and no second request was sent.
C2_Witness ==
    /\ last.op = "goToMap"
    /\ CurrentKey # Null
    /\ InFlight(inflight, CurrentKey[1]) = 1
    /\ requests = 1

\* C3: while the map store's bounds is null no search request has been issued,
\* and every request is made with a bounding box.
C3_NoRequestWithoutBounds ==
    /\ mapStore.bounds = Null => requests = 0
    /\ \A k \in DOMAIN queries : k.bbox # Null

\* The filters were edited and the session check has resolved to a signed-in
\* user before the first bounds update.
C3_Witness ==
    /\ mapStore.bounds = Null
    /\ filterStore.filters # defaultFilters
    /\ authPending = {}
    /\ authStore.isAuthenticated
    /\ requests = 0

\* The fetch of the current key has just failed for good.
FetchOfCurrentKeyFailed ==
    /\ last'.op \in {"searchRejected", "retryDelayOver"}
    /\ LastIsCurrent'
    /\ queries[last'.args[1]].fetchStatus = "fetching"
    /\ queries'[last'.args[1]].fetchStatus = "idle"

\* C4: when the fetch of the current key fails, the error message is recorded
\* in the map store, isLoading is false, and parcels and totalParcels are those
\* held before.
C4_FailureKeepsLastResult ==
    [][FetchOfCurrentKeyFailed =>
            /\ mapStore'.error = queries'[last'.args[1]].error
            /\ mapStore'.error # Null
            /\ mapStore'.isLoading = FALSE
            /\ mapStore'.parcels = mapStore.parcels
            /\ mapStore'.totalParcels = mapStore.totalParcels]_vars

\* The fetch of the current key has failed while the map store held the
\* result of an earlier successful fetch.
C4_Witness ==
    /\ last.op = "searchRejected"
    /\ IsCurrent(last.args[1])
    /\ queries[last.args[1]].fetchStatus = "idle"
    /\ mapStore.error = Some(last.args[2])
    /\ mapStore.parcels # <<>>

\* C5: when the fetch of the current key succeeds with D, the map store's
\* parcels are D.features, totalParcels is D.metadata.total, accessLevel is
\* D.metadata.accessLevel, isLoading is false and error is null.
C5_SuccessReplacesResult ==
    (last.op = "searchResolved" /\ IsCurrent(last.args[1])) =>
        /\ mapStore.parcels = <<[parcel_id |-> last.args[2], request |-> last.args[1]]>>
        /\ mapStore.totalParcels = last.args[2]
        /\ mapStore.accessLevel =
              (IF last.args[1].isAuthenticated THEN "registered" ELSE "guest")
        /\ mapStore.isLoading = FALSE
        /\ mapStore.error = Null

\* The fetch of the current key succeeded after the result of another key had
\* been displayed.
C5_Witness ==
    /\ last.op = "searchResolved"
    /\ IsCurrent(last.args[1])
    /\ \E k \in DOMAIN queries :
          /\ k # last.args[1]
          /\ queries[k].data # Null
          /\ queries[k].dataUpdatedAt <= queries[last.args[1]].dataUpdatedAt
          /\ ~queries[k].retryCancelled

\* The map store holds a response to the request of key k.
Displayed(k) == \E rev \in 1..MaxRev : Holds(searchParcels(k, rev))

\* C6: with the bounds known and every request answered successfully, whenever
\* a key is current, eventually either the key changes or the map store holds
\* the response fetched for that key.
C6_CurrentKeyEventuallyDisplayed ==
    \A k \in SpecKeys : IsCurrent(k) ~> (~IsCurrent(k) \/ Displayed(k))

\* After filters and session changed, the response of the current key is
\* displayed in place of the result of an older key.
C6_Witness ==
    /\ CurrentKey # Null
    /\ CurrentKey[1].filters # defaultFilters
    /\ CurrentKey[1].isAuthenticated
    /\ Displayed(CurrentKey[1])
    /\ \E k \in DOMAIN queries : k # CurrentKey[1] /\ queries[k].data # Null

\* PropertyMap's observer subscribes in this step (a mount, or a change of
\* key) to a key whose query holds a result and is not fetching.
SubscribesToResult ==
    /\ CurrentKey' # Null
    /\ CurrentKey' # CurrentKey
    /\ queryState(queries, CurrentKey'[1]).data # Null
    /\ queryState(queries, CurrentKey'[1]).fetchStatus = "idle"

\* The age of that result.
Age == now - queryState(queries, CurrentKey'[1]).dataUpdatedAt

\* C7 as stated: the window is the QueryClient's default of five minutes.
C7_WindowOfMinutes ==
    [][SubscribesToResult =>
            /\ Age < defaultStaleTime => requests' = requests
            /\ Age >= defaultStaleTime => requests' = requests + 1]_vars

\* C7: a subscription to a key whose result is younger than staleTime (30 s)
\* sends no request and leaves the query as it is; a subscription at or after
\* staleTime sends one request for that key; a step that keeps the observed
\* key sends a request only to retry.
C7_FreshnessWindow ==
    [][/\ SubscribesToResult =>
            /\ Age < staleTime =>
                  /\ requests' = requests
                  /\ queries'[CurrentKey'[1]] = queries[CurrentKey'[1]]
            /\ Age >= staleTime =>
                  /\ requests' = requests + 1
                  /\ InFlight(inflight', CurrentKey'[1]) = 1
       /\ (CurrentKey' = CurrentKey /\ last'.op # "retryDelayOver") =>
            requests' = requests]_vars

\* PropertyMap was mounted again when the result of its key was exactly
\* staleTime old, and the second request for that key is in flight.
C7_Witness ==
    /\ last.op = "goToMap"
    /\ CurrentKey # Null
    /\ queryState(queries, CurrentKey[1]).data # Null
    /\ now - queryState(queries, CurrentKey[1]).dataUpdatedAt = staleTime
    /\ queryState(queries, CurrentKey[1]).fetchStatus = "fetching"
    /\ InFlight(inflight, CurrentKey[1]) = 1
    /\ requests = 2

\* The map store's parcels, totalParcels or accessLevel change in this step.
ResultWritten ==
    \/ mapStore'.parcels # mapStore.parcels
    \/ mapStore'.totalParcels # mapStore.totalParcels
    \/ mapStore'.accessLevel # mapStore.accessLevel

\* The map store holds the search response that the query of the current key
\* holds.
ResultIsCurrentResponse ==
    /\ CurrentKey # Null
    /\ queryState(queries, CurrentKey[1]).data # Null
    /\ Holds(queryState(queries, CurrentKey[1]).data[1])

\* C20: whenever the map store's parcels, totalParcels or accessLevel change,
\* it is PropertyMap's result effect storing the search response of the
\* current key; the store operations of filter edits, viewport updates, login,
\* logout, export and saved preferences leave them as they are.
C20_ResultHasOneWriter == [][ResultWritten => ResultIsCurrentResponse']_vars

\* After a logout the map store still shows the result fetched for the
\* signed-in user, while the search for the new key is pending.
C20_Witness ==
    /\ last.op = "handleLogout"
    /\ CurrentKey # Null
    /\ mapStore.parcels # <<>>
    /\ mapStore.parcels[1].request.isAuthenticated
    /\ mapStore.accessLevel = "registered"
    /\ queryState(queries, CurrentKey[1]).fetchStatus = "fetching"

\* C29: the map store's error describes the current key only: while the
\* current key's first fetch is loading, and once the current key's fetch has
\* succeeded, the store holds no error.
C29_ErrorOfCurrentKeyOnly ==
    CurrentKey # Null =>
        LET q == queryState(queries, CurrentKey[1])
        IN  (q.error = Null /\ (q.data # Null \/ q.fetchStatus = "fetching")) =>
                mapStore.error = Null

(***************************************************************************)
(* Properties of the session                                               *)
(***************************************************************************)

\* C12: whenever login() has resolved, the auth store has isAuthenticated =
\* true and a user that is not null and whose id is not empty.
C12_LoginPopulatesUser ==
    last.op = "loginResolved" =>
        /\ authStore.isAuthenticated
        /\ authStore.user # Null
        /\ authStore.user[1].id # ""

\* C13: when signIn rejects, login() rejects with the same error and the auth
\* store has user = null, token = null, isAuthenticated = false, isLoading =
\* false and an error message that is not empty.
C13_LoginFailureRecorded ==
    last.op = "loginRejected" =>
        /\ last.args[2] = last.args[1]
        /\ authStore.user = Null
        /\ authStore.token = Null
        /\ authStore.isAuthenticated = FALSE
        /\ authStore.isLoading = FALSE
        /\ authStore.error # Null
        /\ authStore.error[1] # ""

\* signIn rejected with a value that is not an Error while the store held a
\* user, a token and isAuthenticated = true.
C13_Witness ==
    /\ last.op = "loginRejected"
    /\ ~last.args[1].isError
    /\ last.before.user # Null
    /\ last.before.token # Null
    /\ last.before.isAuthenticated

\* C14: when logout() returns, user = null, token = null, isAuthenticated =
\* false and error = null, whatever the auth store held before.
C14_LogoutClearsSession ==
    last.op = "handleLogout" =>
        /\ authStore.user = Null
        /\ authStore.token = Null
        /\ authStore.isAuthenticated = FALSE
        /\ authStore.error = Null
        /\ authStore.isLoading = last.before.isLoading

\* logout() was called while the store held a user, a token, isAuthenticated
\* = true and an error.
C14_Witness ==
    /\ last.op = "handleLogout"
    /\ last.before.user # Null
    /\ last.before.token # Null
    /\ last.before.isAuthenticated
    /\ last.before.error # Null

\* C15: initialize() leaves isLoading = true while the identity provider has
\* not answered; when it has answered with a valid session the store has
\* isLoading = false, isAuthenticated = true and the session's token; when it
\* has answered with no valid session, or the check threw, the store has
\* isLoading = false, user = null, token = null and isAuthenticated = false;
\* and with no call awaiting the provider the store is not loading.
C15_InitializeEndsLoading ==
    /\ last.op \in {"load", "reload"} =>
            authStore.isLoading /\ "initialize" \in authPending
    /\ last.op = "initializeResolved" =>
            /\ authStore.isLoading = FALSE
            /\ authStore.isAuthenticated
            /\ authStore.token = Some(last.args[2])
    /\ last.op = "initializeNoSession" =>
            /\ authStore.isLoading = FALSE
            /\ authStore.user = Null
            /\ authStore.token = Null
            /\ authStore.isAuthenticated = FALSE
    /\ authPending = {} => authStore.isLoading = FALSE

\* The page was loaded with the persisted flag set (the preferences request
\* it sent at once is still in flight) and the provider has answered that
\* there is no valid session.
C15_Witness ==
    /\ last.op = "initializeNoSession"
    /\ InFlight(preferencesQuery.inflight, PreferencesKey) = 1
    /\ authPending = {}
    /\ authStore.isLoading = FALSE
    /\ authStore.isAuthenticated = FALSE

\* The token changes to a token in this step.
TokenDerived == authStore'.token # Null /\ authStore'.token # authStore.token

\* C16: the persisted auth record always consists of the isAuthenticated flag
\* alone, equal to the store's; a reloaded page has token = null and user =
\* null, and the token becomes non-null only when initialize() or login()
\* resolves with the identity provider's session.
C16_OnlyFlagPersisted ==
    /\ [](/\ DOMAIN storage = {"isAuthenticated"}
          /\ storage.isAuthenticated = authStore.isAuthenticated
          /\ last.op = "reload" => (authStore.token = Null /\ authStore.user = Null))
    /\ [][TokenDerived =>
              /\ last'.op \in {"initializeResolved", "loginResolved"}
              /\ authStore'.token = Some(last'.args[2])]_vars

\* The page was reloaded while the store held a token and a user: the flag
\* came back set, the token and the user did not.
C16_Witness ==
    /\ last.op = "reload"
    /\ last.before.token # Null
    /\ last.before.user # Null
    /\ authStore.isAuthenticated
    /\ authStore.token = Null

\* A request has just been answered with status 401.
Rejected401 ==
    /\ last'.op = "preferencesRejected"
    /\ last'.args[1].status = Some(401)

\* C17: a 401 response is logged as a warning and rejected to the caller with
\* the error received; the auth store, the persisted record and the calls
\* awaiting the identity provider are as before.
C17_UnauthorizedLeavesSession ==
    [][Rejected401 =>
            /\ last'.warned
            /\ last'.rejected = last'.args[1]
            /\ authStore' = authStore
            /\ storage' = storage
            /\ authPending' = authPending]_vars

\* The preferences request of a signed-in user was answered with 401, and the
\* store still holds the user, the token and isAuthenticated = true.
C17_Witness ==
    /\ last.op = "preferencesRejected"
    /\ last.args[1].status = Some(401)
    /\ last.warned
    /\ authStore.user # Null
    /\ authStore.token # Null
    /\ authStore.isAuthenticated

\* A preferences request is sent in this step.
PreferencesRequested ==
    /\ last'.op # "reload"
    /\ preferencesQuery'.requests > preferencesQuery.requests

\* C18: in every state where isAuthenticated is false the filter store's
\* savedPreferences is empty, and no preferences request is sent in a step
\* that ends with isAuthenticated false.
C18_PreferencesOnlyWhileAuthenticated ==
    /\ [](~authStore.isAuthenticated => filterStore.savedPreferences = <<>>)
    /\ [][PreferencesRequested => authStore'.isAuthenticated]_vars

\* C21: once a login, a logout or a session check has completed, the map
\* store's accessLevel is 'registered' exactly when the session is
\* authenticated, before any later search response.
C21_AccessLevelFollowsSession ==
    last.op \in {"loginResolved", "handleLogout", "initializeNoSession"} =>
        (mapStore.accessLevel = "registered" <=> authStore.isAuthenticated)

\* C22: through setUser, setToken, setError, clearError and logout,
\* isAuthenticated is true exactly when user is not null; setUser(u) stores u,
\* sets isAuthenticated to (u is not null) and leaves the token; setToken leaves
\* user and isAuthenticated.
C22_SettersKeepFlagWithUser ==
    /\ authStore.isAuthenticated <=> authStore.user # Null
    /\ last.op = "setUser" =>
          /\ authStore.user = last.args[1]
          /\ authStore.isAuthenticated = (last.args[1] # Null)
          /\ authStore.token = last.before.token
    /\ last.op = "setToken" =>
          /\ authStore.token = last.args[1]
          /\ authStore.user = last.before.user
          /\ authStore.isAuthenticated = last.before.isAuthenticated

\* setUser(null) was called on a store that held a user and a token.
C22_Witness ==
    /\ last.op = "setUser"
    /\ last.args[1] = Null
    /\ last.before.user # Null
    /\ last.before.isAuthenticated
    /\ authStore.token # Null
    /\ ~authStore.isAuthenticated

\* C24: ExportButton.handleExport issues an export request only when
\* isAuthenticated is true; when it is false no request is issued, isExporting
\* stays false and the route becomes /login.
C24_ExportReservedToSignedIn ==
    last.op = "handleExport" =>
        /\ last.requested <=> last.args[1]
        /\ last.args[1] => exportButton.isExporting /\ exportButton.awaiting = 1
        /\ ~last.args[1] =>
              /\ ~last.wasExporting
              /\ ~exportButton.isExporting
              /\ exportButton.awaiting = 0
              /\ page = "login"

\* A guest clicked the button after the session check had found no session,
\* while the export of an earlier, signed-in visit was still running.
C24_Witness ==
    /\ last.op = "handleExport"
    /\ ~last.args[1]
    /\ ~last.requested
    /\ authPending = {}
    /\ exportButton.orphaned > 0
    /\ page = "login"

\* The names of the preferences the backend holds.
SavedNames == {backend.preferences[i].name : i \in 1..Len(backend.preferences)}

\* C25: the save modal never issues a create request for an empty or
\* whitespace-only name, nor for a name that equals, letter case aside, the
\* name of a preference already saved - also while the preference list is still
\* loading or an earlier save is not yet in it.
C25_ValidationBlocksSubmission ==
    (last.op = "handleSubmit" /\ last.requested) =>
        /\ trim(last.args[1]) # <<>>
        /\ \A saved \in SavedNames : toLowerCase(saved) # toLowerCase(trim(last.args[1]))

C27_AuthenticatedHasTokenAndUser ==
    authStore.isAuthenticated => (authStore.token # Null /\ authStore.user # Null)

(***************************************************************************)
(* Properties of the filter store                                          *)
(***************************************************************************)

\* C8: whatever the filter store held before, after clearFilters() the filters
\* are exactly {priceRange: {min: null, max: null}, sizeRange: {min: null,
\* max: null}, counties: []}.
C8_ClearFiltersGivesDefault ==
    last.op = "clearFilters" =>
        filterStore.filters =
            [priceRange |-> [min |-> Null, max |-> Null],
             sizeRange  |-> [min |-> Null, max |-> Null],
             counties   |-> <<>>]

\* clearFilters() was called with edited filters, counties chosen and a
\* preference active.
C8_Witness ==
    /\ last.op = "clearFilters"
    /\ last.edited
    /\ last.hadCounties
    /\ last.wasActive

\* C9: after applyPreset(P) the filters are deep-equal to P, with no field of
\* the previous filters left, and activePreferenceId is null.
C9_ApplyPresetReplaces ==
    last.op = "applyPreset" =>
        /\ filterStore.filters = last.args[1]
        /\ filterStore.activePreferenceId = Null

\* applyPreset(P) was called with a preset that has no counties field while
\* counties were chosen and a preference was active.
C9_Witness ==
    /\ last.op = "applyPreset"
    /\ "counties" \notin DOMAIN last.args[1]
    /\ last.hadCounties
    /\ last.wasActive

\* C10: updatePriceRange(min, max) stores priceRange = {min, max} and
\* updateSizeRange(min, max) stores sizeRange = {min, max}, as given.
C10_RangeStoredAsGiven ==
    /\ last.op = "updatePriceRange" =>
            filterStore.filters.priceRange = [min |-> last.args[1], max |-> last.args[2]]
    /\ last.op = "updateSizeRange" =>
            filterStore.filters.sizeRange = [min |-> last.args[1], max |-> last.args[2]]

\* updatePriceRange was called with min > max.
C10_Witness ==
    /\ last.op = "updatePriceRange"
    /\ last.args[1] # Null
    /\ last.args[2] # Null
    /\ last.args[1][1] > last.args[2][1]

\* The filters without field f.
Without(filters, f) == [x \in DOMAIN filters \ {f} |-> filters[x]]

\* C11: updatePriceRange changes no filter field but priceRange,
\* updateSizeRange none but sizeRange, updateCounties none but counties.
C11_PartialUpdateFrame ==
    [][/\ last'.op = "updatePriceRange" =>
            Without(filterStore'.filters, "priceRange")
                = Without(filterStore.filters, "priceRange")
       /\ last'.op = "updateSizeRange" =>
            Without(filterStore'.filters, "sizeRange")
                = Without(filterStore.filters, "sizeRange")
       /\ last'.op = "updateCounties" =>
            Without(filterStore'.filters, "counties")
                = Without(filterStore.filters, "counties")]_vars

\* updateCounties was called while both ranges were set, and they still are.
C11_Witness ==
    /\ last.op = "updateCounties"
    /\ last.args[1] # <<>>
    /\ last.edited
    /\ filterStore.filters.priceRange.min # Null
    /\ filterStore.filters.sizeRange.max # Null

\* The saved preferences that carry this id.
Saved(id) ==
    {filterStore.savedPreferences[i] : i \in
        {j \in 1..Len(filterStore.savedPreferences) : filterStore.savedPreferences[j].id = id}}

\* C23: setActivePreference(id) with a null or empty id sets activePreferenceId
\* to null and leaves the filters; with the id of a saved preference it sets
\* activePreferenceId to id and the filters to that preference's filters; with
\* any other id it sets activePreferenceId to id and leaves the filters.
C23_SetActivePreference ==
    [][last'.op = "setActivePreference" =>
          LET id == last'.args[1]
          IN  /\ filterStore'.savedPreferences = filterStore.savedPreferences
              /\ (id = Null \/ id = Some("")) =>
                    /\ filterStore'.activePreferenceId = Null
                    /\ filterStore'.filters = filterStore.filters
              /\ (id # Null /\ id # Some("") /\ Saved(id[1]) # {}) =>
                    /\ filterStore'.activePreferenceId = id
                    /\ \E preference \in Saved(id[1]) :
                          filterStore'.filters = preference.filters
              /\ (id # Null /\ id # Some("") /\ Saved(id[1]) = {}) =>
                    /\ filterStore'.activePreferenceId = id
                    /\ filterStore'.filters = filterStore.filters]_vars

\* setActivePreference was called with the id of the saved preference while
\* other filters were set and no preference was active.
C23_Witness ==
    /\ last.op = "setActivePreference"
    /\ last.args[1] = Some(TestPreference.id)
    /\ last.edited
    /\ last.active = Null
    /\ filterStore.savedPreferences = <<TestPreference>>
    /\ filterStore.activePreferenceId = Some(TestPreference.id)
    /\ filterStore.filters = TestPreference.filters

\* C28: in every state of the filter store a non-null activePreferenceId names
\* a preference present in savedPreferences whose filters equal the active
\* filters, also after savedPreferences was replaced by a refreshed list.
C28_ActivePreferenceIsSaved ==
    filterStore.activePreferenceId # Null =>
        \E preference \in Saved(filterStore.activePreferenceId[1]) :
            preference.filters = filterStore.filters

(***************************************************************************)
(* Properties of the export modal                                          *)
(***************************************************************************)

\* The options of the request the last click on Download CSV sent.
ModalExportSent == last.op = "ExportModal.handleExport"

SentOptions == last.request.data.filters

\* C30: every export request the modal sends with sortBy = 'distance' carries
\* a center point and a maxDistance between 0.01 and 50 miles; no request is
\* sent with the location filter on and no center point; and after every
\* event a modal with the location filter off does not sort by distance.
C30_DistanceSortHasCenter ==
    /\ ~exportModal.useLocationFilter => exportModal.sortBy # "distance"
    /\ ModalExportSent =>
          /\ ~(last.before.useLocationFilter /\ last.before.centerPoint = Null)
          /\ SentOptions.sortBy = "distance" =>
                /\ "centerPoint" \in DOMAIN SentOptions
                /\ SentOptions.centerPoint \in Places
                /\ "maxDistance" \in DOMAIN SentOptions
                /\ SentOptions.maxDistance >= 10
                /\ SentOptions.maxDistance =< 50000

\* A distance-sorted export was sent after the distance was changed to 0.01
\* miles.
C30_Witness ==
    /\ ModalExportSent
    /\ SentOptions.sortBy = "distance"
    /\ "maxDistance" \in DOMAIN SentOptions
    /\ SentOptions.maxDistance = 10

====
